---- MODULE Spec2Model ----
(***************************************************************************)
(* Query execution core of rustbase (src/server/engine/core.rs).           *)
(*                                                                         *)
(* One session owns one Core.  run_ast takes an ASTNode, validates its     *)
(* shape, makes at most one call to the storage interface and turns the    *)
(* outcome into a Response or an Error.  The storage interface and the     *)
(* parser are external collaborators: the AST is an input drawn from a     *)
(* bounded set and the outcome of a storage call is a nondeterministic     *)
(* choice among success and the TransactionError variants.                 *)
(***************************************************************************)
EXTENDS Integers, Sequences, FiniteSets, TLC

VARIABLES
    pc,                \* where the session's thread is: ready, in_storage, returned, panicked
    ast,               \* the ASTNode handed to the running (or last) run_ast call
    calls,             \* the storage interface calls that run_ast call has made, in order
    answer,            \* what the storage interface answered to the last call
    result,            \* the Result<Response, Error> run_ast returned
    current_database   \* self.interface.current_database

vars == <<pc, ast, calls, answer, result, current_database>>

\* Longest administrative argument list handed to the user insert / update scan.
MaxArgs == 3

\* Longest argument list handed to the handlers that read at most expr[0].
MaxHeadArgs == 1

(***************************************************************************)
(* Option<T>                                                               *)
(***************************************************************************)
None == [tag |-> "None"]

Some(x) == [tag |-> "Some", val |-> x]

is_none(o) == o.tag = "None"

(***************************************************************************)
(* Enumerations                                                            *)
(***************************************************************************)
Keywords == {"Insert", "Update", "Delete", "Get", "List"}

Verbs == {"User", "Database"}

\* dustdata::ErrorCode, as matched by parse_dd_error_code
ErrorCodes == {"KeyExists", "KeyNotExists", "NotFound"}

(***************************************************************************)
(* bson::Bson values: a string, a number or a document.                    *)
(***************************************************************************)
BsonString(s) == [kind |-> "String", s |-> s]

BsonInt32 == [kind |-> "Int32", s |-> "7"]

BsonDocument == [kind |-> "Document", s |-> "{a: 1}"]

\* Bson::as_str: Some(s) for a Bson::String, None for every other kind
as_str(b) == IF b.kind = "String" THEN Some(b.s) ELSE None

(***************************************************************************)
(* ASTNode variants                                                        *)
(***************************************************************************)
Identifier(name) == [type |-> "Identifier", name |-> name]

Bson(b) == [type |-> "Bson", bson |-> b]

AssignmentExpression(ident, value) ==
    [type |-> "AssignmentExpression", ident |-> ident, value |-> value]

IntoExpression(keyword, json, ident) ==
    [type |-> "IntoExpression", keyword |-> keyword, json |-> json, ident |-> ident]

MonadicExpression(keyword, verb, expr) ==
    [type |-> "MonadicExpression", keyword |-> keyword, verb |-> verb, expr |-> expr]

SingleExpression(keyword, ident) ==
    [type |-> "SingleExpression", keyword |-> keyword, ident |-> ident]

(***************************************************************************)
(* Bounded input universe                                                  *)
(***************************************************************************)
Names == {"", "bob"}

Keys == {"k1", "k2"}

DatabaseNames == {"db1", "db2"}

PasswordStrings == {"", "pw"}

PermissionStrings == {"", "read", "write", "read_and_write", "admin", "owner", "Admin"}

BsonValues == {BsonString("s"), BsonInt32, BsonDocument}

\* values an assignment inside an argument list can carry
PasswordValues ==
    {Bson(BsonString(s)) : s \in PasswordStrings} \cup {Bson(BsonInt32), Identifier("bob")}

PermissionValues ==
    {Bson(BsonString(s)) : s \in PermissionStrings} \cup {Bson(BsonInt32), Identifier("bob")}

ArgNodes ==
    {Identifier(n) : n \in Names}
    \cup {Bson(BsonInt32)}
    \cup {AssignmentExpression("password", v) : v \in PasswordValues}
    \cup {AssignmentExpression("permission", v) : v \in PermissionValues}
    \cup {AssignmentExpression("role", Bson(BsonString("pw")))}

\* Vec<ASTNode> of at most n nodes drawn from S
VecsUpTo(S, n) == UNION {[1..m -> S] : m \in 0..n}

HeadNodes == {Identifier(n) : n \in Names \cup DatabaseNames} \cup {Bson(BsonInt32)}

\* Option<Vec<ASTNode>> of a MonadicExpression: insert and update get the
\* lists their scan walks through, the others read at most expr[0]
ExprsFor(keyword, verb) ==
    IF keyword \in {"Insert", "Update"}
    THEN {None} \cup {Some(l) : l \in VecsUpTo(ArgNodes, MaxArgs)}
    ELSE {None} \cup {Some(l) : l \in VecsUpTo(HeadNodes, MaxHeadArgs)}

IntoValues == {Bson(b) : b \in BsonValues} \cup {Identifier("k1")}

IntoTargets == {Identifier(n) : n \in Keys} \cup {Bson(BsonDocument)}

SingleTargets ==
    {None} \cup {Some(Identifier(n)) : n \in Keys} \cup {Some(Bson(BsonDocument))}

LeafASTs ==
    {Identifier("k1"), Bson(BsonDocument),
     AssignmentExpression("password", Bson(BsonString("pw")))}

(***************************************************************************)
(* Response / Error model and the storage interface's TransactionError     *)
(***************************************************************************)
Response(body) ==
    [type |-> "Response", body |-> body, is_error |-> FALSE, messages |-> None,
     status |-> "Ok"]

Error(message, status) ==
    [type |-> "Error", message |-> message, query_message |-> None, status |-> status]

InternalError(code) == [variant |-> "InternalError", code |-> code]

ExternalError(status, message) ==
    [variant |-> "ExternalError", status |-> status, message |-> message]

\* failures the storage interface can hand back
TransactionErrors ==
    {InternalError(c) : c \in ErrorCodes}
    \cup {ExternalError("InvalidQuery", "database is reserved"),
          ExternalError("NotFound", "user does not exist")}

\* values a successful get can yield, key lists a successful list can yield
StoredValues == {BsonDocument, BsonString("s")}

KeyLists == {<<>>, <<"k2", "k1">>}

(***************************************************************************)
(* What a handler does before control leaves the core: it returns a        *)
(* result, it aborts the thread (unwrap on None, index out of range,       *)
(* unreachable!()), or it calls one storage interface operation.           *)
(***************************************************************************)
Return(r) == [k |-> "return", result |-> r]

Abort == [k |-> "panic"]

Invoke(op, args) == [k |-> "call", call |-> [op |-> op, args |-> args]]

query_error(msg) == Error(msg, "InvalidQuery")

\* parse_dd_error_code with KeyNotExists sent to NotFound
parse_dd_error_code_KeyNotExistsNotFound(code) ==
    CASE code = "KeyExists" -> <<"AlreadyExists", "key already exists">>
      [] code = "KeyNotExists" -> <<"NotFound", "key not exists">>
      [] code = "NotFound" -> <<"NotFound", "not found">>

parse_dd_error_code(code) ==
    CASE code = "KeyExists" -> <<"AlreadyExists", "key already exists">>
      [] code = "KeyNotExists" -> <<"AlreadyExists", "key not exists">>
      [] code = "NotFound" -> <<"NotFound", "not found">>

dd_error(error) ==
    IF error.variant = "InternalError"
    THEN LET code == parse_dd_error_code(error.code)
         IN  Error(code[2], code[1])
    ELSE Error(error.message, error.status)

\* UserPermission::from_str: the four case-sensitive level names, else Err
UserPermission_from_str(s) ==
    CASE s = "read" -> [is_err |-> FALSE, level |-> "Read"]
      [] s = "write" -> [is_err |-> FALSE, level |-> "Write"]
      [] s = "read_and_write" -> [is_err |-> FALSE, level |-> "ReadAndWrite"]
      [] s = "admin" -> [is_err |-> FALSE, level |-> "Admin"]
      [] OTHER -> [is_err |-> TRUE, level |-> "none"]

PermissionErrorMessage ==
    "permission must be 'read' or 'write', 'read_and_write', or 'admin'"

(***************************************************************************)
(* Key/value handlers                                                      *)
(***************************************************************************)
\* ast_into_insert calling the update operation of the interface
ast_into_insert_CallsUpdate(value, expr) ==
    IF expr.type # "Identifier" THEN Return(query_error("key must be an identifier"))
    ELSE IF value.type # "Bson" THEN Return(query_error("value must be a json object"))
    ELSE Invoke("update_dustdata", [key |-> expr.name, value |-> value.bson])

ast_into_insert(value, expr) ==
    IF expr.type # "Identifier" THEN Return(query_error("key must be an identifier"))
    ELSE IF value.type # "Bson" THEN Return(query_error("value must be a json object"))
    ELSE Invoke("insert_into_dustdata", [key |-> expr.name, value |-> value.bson])

ast_into_update(value, expr) ==
    IF expr.type # "Identifier" THEN Return(query_error("key must be an identifier"))
    ELSE IF value.type # "Bson" THEN Return(query_error("value must be a json object"))
    ELSE Invoke("update_dustdata", [key |-> expr.name, value |-> value.bson])

ast_sgl_get(ident) ==
    IF is_none(ident) THEN Return(query_error("get must have an expression"))
    ELSE IF ident.val.type # "Identifier" THEN Abort
    ELSE Invoke("get_from_dustdata", [key |-> ident.val.name])

ast_sgl_delete(ident) ==
    IF is_none(ident) THEN Abort
    ELSE IF ident.val.type # "Identifier" THEN Abort
    ELSE Invoke("delete_from_dustdata", [key |-> ident.val.name])

ast_sgl_list == Invoke("list_from_dustdata", [none |-> TRUE])

(***************************************************************************)
(* User handlers.  The argument list is scanned once, left to right; the   *)
(* scan stops at the first early return.                                   *)
(***************************************************************************)
RECURSIVE user_insert_scan(_, _, _)
\* the for loop of ast_user_insert from node i on; acc holds username,
\* password, permission (String::new() at the start) and the early return, if any
user_insert_scan(expr, i, acc) ==
    IF i > Len(expr) THEN acc
    ELSE LET node == expr[i] IN
         IF node.type = "AssignmentExpression"
         THEN IF node.ident = "password"
              THEN IF node.value.type = "Bson" /\ ~is_none(as_str(node.value.bson))
                   THEN user_insert_scan(expr, i + 1,
                            [acc EXCEPT !.password = as_str(node.value.bson).val])
                   ELSE [acc EXCEPT !.error = Some("password must be a string")]
              ELSE IF node.ident = "permission"
              THEN IF node.value.type = "Bson" /\ ~is_none(as_str(node.value.bson))
                   THEN user_insert_scan(expr, i + 1,
                            [acc EXCEPT !.permission = as_str(node.value.bson).val])
                   ELSE [acc EXCEPT !.error = Some("permission must be a string")]
              ELSE user_insert_scan(expr, i + 1, acc)
         ELSE IF node.type = "Identifier"
         THEN user_insert_scan(expr, i + 1, [acc EXCEPT !.username = node.name])
         ELSE user_insert_scan(expr, i + 1, acc)

\* ast_user_insert whose required-fields test forgets the permission
ast_user_insert_PermissionNotRequired(expr) ==
    IF is_none(expr) THEN Return(query_error("user insert must have an expression"))
    ELSE LET scan == user_insert_scan(expr.val, 1,
                         [username |-> "", password |-> "", permission |-> "",
                          error |-> None])
         IN  IF ~is_none(scan.error) THEN Return(query_error(scan.error.val))
             ELSE IF scan.username = "" \/ scan.password = ""
             THEN Return(query_error("username, password, and permission are required"))
             ELSE LET permission == UserPermission_from_str(scan.permission)
                  IN  IF permission.is_err
                      THEN Return(query_error(PermissionErrorMessage))
                      ELSE Invoke("create_user",
                                  [username |-> scan.username,
                                   password |-> scan.password,
                                   permission |-> permission.level])

ast_user_insert(expr) ==
    IF is_none(expr) THEN Return(query_error("user insert must have an expression"))
    ELSE LET scan == user_insert_scan(expr.val, 1,
                         [username |-> "", password |-> "", permission |-> "",
                          error |-> None])
         IN  IF ~is_none(scan.error) THEN Return(query_error(scan.error.val))
             ELSE IF scan.username = "" \/ scan.password = "" \/ scan.permission = ""
             THEN Return(query_error("username, password, and permission are required"))
             ELSE LET permission == UserPermission_from_str(scan.permission)
                  IN  IF permission.is_err
                      THEN Return(query_error(PermissionErrorMessage))
                      ELSE Invoke("create_user",
                                  [username |-> scan.username,
                                   password |-> scan.password,
                                   permission |-> permission.level])

ast_user_delete(expr) ==
    IF is_none(expr) THEN Return(query_error("user delete must have an expression"))
    ELSE IF Len(expr.val) = 0 THEN Abort
    ELSE IF expr.val[1].type # "Identifier"
    THEN Return(query_error("user delete must have an expression"))
    ELSE Invoke("delete_user", [username |-> expr.val[1].name])

RECURSIVE user_update_scan_LiteralAbsent(_, _, _)
\* the update scan taking every value that is not a string, literal or not,
\* for an absent field
user_update_scan_LiteralAbsent(expr, i, acc) ==
    IF i > Len(expr) THEN acc
    ELSE LET node == expr[i] IN
         IF node.type = "AssignmentExpression"
         THEN IF node.ident = "password"
              THEN IF node.value.type = "Bson" /\ ~is_none(as_str(node.value.bson))
                   THEN user_update_scan_LiteralAbsent(expr, i + 1,
                            [acc EXCEPT !.password = Some(as_str(node.value.bson).val)])
                   ELSE user_update_scan_LiteralAbsent(expr, i + 1,
                            [acc EXCEPT !.password = None])
              ELSE IF node.ident = "permission"
              THEN IF node.value.type = "Bson" /\ ~is_none(as_str(node.value.bson))
                   THEN user_update_scan_LiteralAbsent(expr, i + 1,
                            [acc EXCEPT !.permission = Some(as_str(node.value.bson).val)])
                   ELSE user_update_scan_LiteralAbsent(expr, i + 1,
                            [acc EXCEPT !.permission = None])
              ELSE user_update_scan_LiteralAbsent(expr, i + 1, acc)
         ELSE IF node.type = "Identifier"
         THEN user_update_scan_LiteralAbsent(expr, i + 1,
                  [acc EXCEPT !.username = node.name])
         ELSE user_update_scan_LiteralAbsent(expr, i + 1, acc)

RECURSIVE user_update_scan(_, _, _)
\* the for loop of ast_user_update from node i on; password and permission
\* are Option<String>, None at the start
user_update_scan(expr, i, acc) ==
    IF i > Len(expr) THEN acc
    ELSE LET node == expr[i] IN
         IF node.type = "AssignmentExpression"
         THEN IF node.ident = "password"
              THEN IF node.value.type = "Bson"
                   THEN IF ~is_none(as_str(node.value.bson))
                        THEN user_update_scan(expr, i + 1,
                                 [acc EXCEPT !.password = Some(as_str(node.value.bson).val)])
                        ELSE [acc EXCEPT !.error = Some("password must be a string")]
                   ELSE user_update_scan(expr, i + 1, [acc EXCEPT !.password = None])
              ELSE IF node.ident = "permission"
              THEN IF node.value.type = "Bson"
                   THEN IF ~is_none(as_str(node.value.bson))
                        THEN user_update_scan(expr, i + 1,
                                 [acc EXCEPT !.permission = Some(as_str(node.value.bson).val)])
                        ELSE [acc EXCEPT !.error = Some("permission must be a string")]
                   ELSE user_update_scan(expr, i + 1, [acc EXCEPT !.permission = None])
              ELSE user_update_scan(expr, i + 1, acc)
         ELSE IF node.type = "Identifier"
         THEN user_update_scan(expr, i + 1, [acc EXCEPT !.username = node.name])
         ELSE user_update_scan(expr, i + 1, acc)

\* ast_user_update that takes an unparseable permission for "no change"
ast_user_update_BadPermissionIgnored(expr) ==
    IF is_none(expr) THEN Return(query_error("user update must have an expression"))
    ELSE LET scan == user_update_scan(expr.val, 1,
                         [username |-> "", password |-> None, permission |-> None,
                          error |-> None])
         IN  IF ~is_none(scan.error) THEN Return(query_error(scan.error.val))
             ELSE IF is_none(scan.permission)
                     \/ UserPermission_from_str(scan.permission.val).is_err
             THEN Invoke("update_user",
                         [username |-> scan.username, password |-> scan.password,
                          permission |-> None])
             ELSE Invoke("update_user",
                         [username |-> scan.username,
                          password |-> scan.password,
                          permission |->
                              Some(UserPermission_from_str(scan.permission.val).level)])

ast_user_update(expr) ==
    IF is_none(expr) THEN Return(query_error("user update must have an expression"))
    ELSE LET scan == user_update_scan(expr.val, 1,
                         [username |-> "", password |-> None, permission |-> None,
                          error |-> None])
         IN  IF ~is_none(scan.error) THEN Return(query_error(scan.error.val))
             ELSE IF is_none(scan.permission)
             THEN Invoke("update_user",
                         [username |-> scan.username, password |-> scan.password,
                          permission |-> None])
             ELSE LET permission == UserPermission_from_str(scan.permission.val)
                  IN  IF permission.is_err
                      THEN Return(query_error(PermissionErrorMessage))
                      ELSE Invoke("update_user",
                                  [username |-> scan.username,
                                   password |-> scan.password,
                                   permission |-> Some(permission.level)])

(***************************************************************************)
(* Database handler                                                        *)
(***************************************************************************)
\* ast_database_delete that falls back to an empty name, not the session's database
ast_database_delete_EmptyDefault(expr) ==
    IF is_none(expr)
    THEN Invoke("delete_database", [database |-> ""])
    ELSE IF Len(expr.val) = 0 THEN Abort
    ELSE IF expr.val[1].type # "Identifier" THEN Abort
    ELSE Invoke("delete_database", [database |-> expr.val[1].name])

ast_database_delete(expr) ==
    IF is_none(expr)
    THEN Invoke("delete_database", [database |-> current_database])
    ELSE IF Len(expr.val) = 0 THEN Abort
    ELSE IF expr.val[1].type # "Identifier" THEN Abort
    ELSE Invoke("delete_database", [database |-> expr.val[1].name])

(***************************************************************************)
(* Dispatch                                                                *)
(***************************************************************************)
\* expr_into whose catch-all arm inserts instead of rejecting the keyword
expr_into_NoCatchAll(keyword, value, expr) ==
    CASE keyword = "Update" -> ast_into_update(value, expr)
      [] OTHER -> ast_into_insert(value, expr)

expr_into(keyword, value, expr) ==
    CASE keyword = "Insert" -> ast_into_insert(value, expr)
      [] keyword = "Update" -> ast_into_update(value, expr)
      [] OTHER -> Return(Error(keyword \o " is unexpected for into expression",
                               "InvalidQuery"))

monadic_expr(keyword, verb, expr) ==
    CASE keyword = "Insert" ->
            IF verb = "User" THEN ast_user_insert(expr)
            ELSE Return(Error(verb \o " is unexpected for insert expression",
                              "InvalidQuery"))
      [] keyword = "Delete" ->
            IF verb = "Database" THEN ast_database_delete(expr)
            ELSE ast_user_delete(expr)
      [] keyword = "Update" ->
            IF verb = "User" THEN ast_user_update(expr)
            ELSE Return(Error(verb \o " is unexpected for update expression",
                              "InvalidQuery"))
      [] OTHER -> Return(Error(keyword \o " is unexpected for monadic expression",
                               "InvalidQuery"))

sgl_expr(keyword, ident) ==
    CASE keyword = "Get" -> ast_sgl_get(ident)
      [] keyword = "Delete" -> ast_sgl_delete(ident)
      [] keyword = "List" -> ast_sgl_list
      [] OTHER -> Return(Error(keyword \o " is unexpected for single expression",
                               "InvalidQuery"))

run_ast(node) ==
    CASE node.type = "IntoExpression" -> expr_into(node.keyword, node.json, node.ident)
      [] node.type = "MonadicExpression" ->
            monadic_expr(node.keyword, node.verb, node.expr)
      [] node.type = "SingleExpression" -> sgl_expr(node.keyword, node.ident)
      [] OTHER -> Return(Error("Invalid query", "InvalidQuery"))

\* the Ok arm of the handler that made the call
ok_response(call, value) ==
    CASE call.op = "get_from_dustdata" -> Response(Some(value))
      [] call.op = "list_from_dustdata" -> Response(Some(value))
      [] OTHER -> Response(None)

\* what the storage interface can answer Ok with, per operation
OkValues(call) ==
    CASE call.op = "get_from_dustdata" -> StoredValues
      [] call.op = "list_from_dustdata" ->
            {[kind |-> "Array", items |-> [i \in DOMAIN l |-> BsonString(l[i])]] :
                l \in KeyLists}
      [] OTHER -> {None}

(***************************************************************************)
(* State machine: one Core per session                                     *)
(***************************************************************************)
NoAst == [type |-> "NoAst"]

NoResult == [type |-> "NoResult"]

NoAnswer == [tag |-> "NoAnswer"]

\* Result<T, TransactionError> of a storage interface call
Ok(value) == [tag |-> "Ok", val |-> value]

Err(e) == [tag |-> "Err", err |-> e]

\* Core::new: current_database is handed to the interface; nothing is running
Init ==
    /\ current_database \in DatabaseNames
    /\ pc = "ready"
    /\ ast = NoAst
    /\ calls = <<>>
    /\ answer = NoAnswer
    /\ result = NoResult

\* run_ast(node) up to the point where it returns, aborts or calls the
\* storage interface
Begin(node) ==
    LET step == run_ast(node) IN
    /\ ast' = node
    /\ CASE step.k = "return" ->
              /\ pc' = "returned"
              /\ result' = step.result
              /\ calls' = calls
         [] step.k = "panic" ->
              /\ pc' = "panicked"
              /\ result' = result
              /\ calls' = calls
         [] step.k = "call" ->
              /\ pc' = "in_storage"
              /\ result' = result
              /\ calls' = Append(calls, step.call)
    /\ UNCHANGED <<answer, current_database>>

RunInto ==
    /\ pc = "ready"
    /\ \E keyword \in Keywords, json \in IntoValues, ident \in IntoTargets :
          Begin(IntoExpression(keyword, json, ident))

RunMonadic ==
    /\ pc = "ready"
    /\ \E keyword \in Keywords, verb \in Verbs :
          \E expr \in ExprsFor(keyword, verb) :
              Begin(MonadicExpression(keyword, verb, expr))

RunSingle ==
    /\ pc = "ready"
    /\ \E keyword \in Keywords, ident \in SingleTargets :
          Begin(SingleExpression(keyword, ident))

RunLeaf ==
    /\ pc = "ready"
    /\ \E node \in LeafASTs : Begin(node)

\* the storage call answers Ok: the handler builds its Response
StorageOk ==
    /\ pc = "in_storage"
    /\ \E value \in OkValues(calls[Len(calls)]) :
          /\ answer' = Ok(value)
          /\ result' = ok_response(calls[Len(calls)], value)
    /\ pc' = "returned"
    /\ UNCHANGED <<ast, calls, current_database>>

\* an Err arm that repeats the failed call before it returns the failure
StorageErr_Retries ==
    /\ pc = "in_storage"
    /\ \E e \in TransactionErrors :
          /\ answer' = Err(e)
          /\ result' = dd_error(e)
    /\ calls' = Append(calls, calls[Len(calls)])
    /\ pc' = "returned"
    /\ UNCHANGED <<ast, current_database>>

\* the storage call answers Err(e): the handler returns self.dd_error(e)
StorageErr ==
    /\ pc = "in_storage"
    /\ \E e \in TransactionErrors :
          /\ answer' = Err(e)
          /\ result' = dd_error(e)
    /\ pc' = "returned"
    /\ UNCHANGED <<ast, calls, current_database>>

\* the caller has taken the result; the session's Core accepts the next AST
NextQuery ==
    /\ pc = "returned"
    /\ pc' = "ready"
    /\ ast' = NoAst
    /\ calls' = <<>>
    /\ answer' = NoAnswer
    /\ result' = NoResult
    /\ UNCHANGED current_database

Next == RunInto \/ RunMonadic \/ RunSingle \/ RunLeaf \/ StorageOk \/ StorageErr \/ NextQuery

Spec == Init /\ [][Next]_vars

(***************************************************************************)
(* Properties                                                              *)
(***************************************************************************)
Started == ast # NoAst

IsInvalidQuery(r) == r.type = "Error" /\ r.status = "InvalidQuery"

\* run_ast returned an InvalidQuery Error without touching the storage interface
RejectedWithoutStorage ==
    /\ pc = "returned"
    /\ IsInvalidQuery(result)
    /\ calls = <<>>
    /\ answer = NoAnswer

\* the (node shape, keyword, verb) combinations outside the dispatch table
Undispatched(node) ==
    \/ /\ node.type = "IntoExpression"
       /\ node.keyword \notin {"Insert", "Update"}
    \/ /\ node.type = "MonadicExpression"
       /\ \/ node.keyword \in {"Insert", "Update"} /\ node.verb = "Database"
          \/ node.keyword \in {"Get", "List"}
    \/ /\ node.type = "SingleExpression"
       /\ node.keyword \in {"Insert", "Update"}
    \/ node.type \in {"Identifier", "Bson", "AssignmentExpression"}

\* C1: an AST whose (node shape, keyword, verb) combination is not a row of
\* the dispatch table makes run_ast return an InvalidQuery Error, and no
\* storage interface operation is called.
C1_UndispatchedRejected ==
    (Started /\ Undispatched(ast)) => RejectedWithoutStorage

C1_Witness ==
    /\ pc = "returned"
    /\ ast.type = "MonadicExpression"
    /\ ast.keyword = "Update"
    /\ ast.verb = "Database"
    /\ ast.expr # None
    /\ Len(ast.expr.val) = MaxArgs

\* the translation table of the Internal failures, as the claim gives it
TranslationOf(e) ==
    IF e.variant = "InternalError"
    THEN CASE e.code = "KeyExists" ->
                  [status |-> "AlreadyExists", message |-> "key already exists"]
           [] e.code = "KeyNotExists" ->
                  [status |-> "AlreadyExists", message |-> "key not exists"]
           [] e.code = "NotFound" ->
                  [status |-> "NotFound", message |-> "not found"]
    ELSE [status |-> e.status, message |-> e.message]

StorageOps ==
    {"insert_into_dustdata", "update_dustdata", "get_from_dustdata",
     "delete_from_dustdata", "list_from_dustdata", "create_user", "update_user",
     "delete_user", "delete_database"}

\* C2: when the storage call of any operation fails, run_ast returns the
\* Error that translates the failure: KeyExists and KeyNotExists both give
\* AlreadyExists, NotFound gives NotFound, an External failure keeps its
\* status and message, and query_message is absent.
C2_FailureTranslated ==
    (answer # NoAnswer /\ answer.tag = "Err") =>
        /\ pc = "returned"
        /\ Len(calls) = 1
        /\ calls[1].op \in StorageOps
        /\ result.type = "Error"
        /\ result.status = TranslationOf(answer.err).status
        /\ result.message = TranslationOf(answer.err).message
        /\ result.query_message = None

C2_Witness ==
    /\ pc = "returned"
    /\ Len(calls) = 1
    /\ calls[1].op = "update_dustdata"
    /\ answer = Err(InternalError("KeyNotExists"))
    /\ result.type = "Error"
    /\ result.status = "AlreadyExists"

\* C3: run_ast ends by returning a Response or an Error for every AST; no
\* input makes the thread abort.
C3_NeverAborts == pc # "panicked"

IsInsertInto(node) ==
    /\ node.type = "IntoExpression"
    /\ node.keyword = "Insert"
    /\ node.json.type = "Bson"
    /\ node.ident.type = "Identifier"

\* C4: IntoExpression{Insert, Literal(D), Identifier(k)} calls insert exactly
\* once with (k, D) and nothing else; when the call succeeds the result is a
\* Response with no body, is_error false, no messages and status Ok.
C4_InsertForwarded ==
    (Started /\ IsInsertInto(ast)) =>
        /\ pc \in {"in_storage", "returned"}
        /\ Len(calls) = 1
        /\ calls[1].op = "insert_into_dustdata"
        /\ calls[1].args.key = ast.ident.name
        /\ calls[1].args.value = ast.json.bson
        /\ (answer # NoAnswer /\ answer.tag = "Ok") =>
              /\ result.type = "Response"
              /\ result.body = None
              /\ result.is_error = FALSE
              /\ result.messages = None
              /\ result.status = "Ok"

C4_Witness ==
    /\ pc = "returned"
    /\ IsInsertInto(ast)
    /\ ast.json.bson = BsonString("s")
    /\ answer # NoAnswer
    /\ answer.tag = "Ok"
    /\ result.type = "Response"

(***************************************************************************)
(* Reading an administrative argument list the way the claims speak of it: *)
(* the value in effect for a field is the one of its last occurrence.      *)
(***************************************************************************)
IsAssignment(node, field) ==
    node.type = "AssignmentExpression" /\ node.ident = field

IsCredential(node) == IsAssignment(node, "password") \/ IsAssignment(node, "permission")

IsStringLiteral(node) == node.type = "Bson" /\ node.bson.kind = "String"

IsOtherLiteral(node) == node.type = "Bson" /\ node.bson.kind # "String"

\* index of the last node of args satisfying the test, 0 when there is none
LastWhere(args, Test(_)) ==
    LET S == {i \in DOMAIN args : Test(args[i])}
    IN  IF S = {} THEN 0 ELSE CHOOSE i \in S : \A j \in S : j <= i

LastIdentifier(args) ==
    LET IsId(n) == n.type = "Identifier" IN LastWhere(args, IsId)

LastAssignment(args, field) ==
    LET IsField(n) == IsAssignment(n, field) IN LastWhere(args, IsField)

\* every password / permission assignment of args carries a string literal
AllCredentialsStrings(args) ==
    \A i \in DOMAIN args : IsCredential(args[i]) => IsStringLiteral(args[i].value)

\* some password / permission assignment of args carries a literal of another kind
SomeCredentialOtherLiteral(args) ==
    \E i \in DOMAIN args : IsCredential(args[i]) /\ IsOtherLiteral(args[i].value)

\* the username in effect: "" when no Identifier is in the list
NameGiven(args) ==
    IF LastIdentifier(args) = 0 THEN "" ELSE args[LastIdentifier(args)].name

\* TRUE when the field's last assignment carries a string literal
StringGiven(args, field) ==
    /\ LastAssignment(args, field) # 0
    /\ IsStringLiteral(args[LastAssignment(args, field)].value)

\* that string; "" when the field is not assigned a string
StringOf(args, field) ==
    IF StringGiven(args, field)
    THEN args[LastAssignment(args, field)].value.bson.s
    ELSE ""

IsUserInsert(node) ==
    /\ node.type = "MonadicExpression"
    /\ node.keyword = "Insert"
    /\ node.verb = "User"
    /\ node.expr # None

IsUserUpdate(node) ==
    /\ node.type = "MonadicExpression"
    /\ node.keyword = "Update"
    /\ node.verb = "User"
    /\ node.expr # None

RequiredMessage == "username, password, and permission are required"

\* C5: create user over a list whose password / permission assignments all
\* carry strings: when the username, the password or the permission is
\* missing or empty after the scan, run_ast returns InvalidQuery with
\* "username, password, and permission are required" and no storage
\* operation is called.
C5_CreateUserRequiresAllFields ==
    (/\ Started
     /\ IsUserInsert(ast)
     /\ AllCredentialsStrings(ast.expr.val)
     /\ \/ NameGiven(ast.expr.val) = ""
        \/ StringOf(ast.expr.val, "password") = ""
        \/ StringOf(ast.expr.val, "permission") = "") =>
        /\ RejectedWithoutStorage
        /\ result.message = RequiredMessage

C5_Witness ==
    /\ pc = "returned"
    /\ IsUserInsert(ast)
    /\ Len(ast.expr.val) = 3
    /\ AllCredentialsStrings(ast.expr.val)
    /\ NameGiven(ast.expr.val) = "bob"
    /\ StringOf(ast.expr.val, "password") = "pw"
    /\ StringGiven(ast.expr.val, "permission")
    /\ StringOf(ast.expr.val, "permission") = ""
    /\ result.message = RequiredMessage

LevelNames == {"read", "write", "read_and_write", "admin"}

\* the permission level each level name stands for
LevelOf(name) ==
    CASE name = "read" -> "Read"
      [] name = "write" -> "Write"
      [] name = "read_and_write" -> "ReadAndWrite"
      [] name = "admin" -> "Admin"

RejectedNamingLevels ==
    /\ RejectedWithoutStorage
    /\ result.message =
          "permission must be 'read' or 'write', 'read_and_write', or 'admin'"

\* create user with username and password present and a permission string given
CreateWithPermission(node) ==
    /\ IsUserInsert(node)
    /\ NameGiven(node.expr.val) # ""
    /\ StringOf(node.expr.val, "password") # ""
    /\ StringGiven(node.expr.val, "permission")

UpdateWithPermission(node) ==
    /\ IsUserUpdate(node)
    /\ StringGiven(node.expr.val, "permission")

IsDatabaseDelete(node) ==
    /\ node.type = "MonadicExpression"
    /\ node.keyword = "Delete"
    /\ node.verb = "Database"

EmptyOkResponse ==
    /\ result.type = "Response"
    /\ result.body = None
    /\ result.is_error = FALSE
    /\ result.status = "Ok"

\* delete database: the name handed to delete_database, and the Response on success
DeleteDatabaseTarget ==
    /\ current_database \in DatabaseNames
    /\ (Started /\ IsDatabaseDelete(ast) /\ ast.expr = None) =>
          /\ Len(calls) = 1
          /\ calls[1].op = "delete_database"
          /\ calls[1].args.database = current_database
    /\ (/\ Started
        /\ IsDatabaseDelete(ast)
        /\ ast.expr # None
        /\ Len(ast.expr.val) > 0
        /\ ast.expr.val[1].type = "Identifier") =>
          /\ Len(calls) = 1
          /\ calls[1].op = "delete_database"
          /\ calls[1].args.database = ast.expr.val[1].name
    /\ (/\ Started
        /\ IsDatabaseDelete(ast)
        /\ answer # NoAnswer
        /\ answer.tag = "Ok") => EmptyOkResponse

\* C7: delete database without arguments calls delete_database once with the
\* session's current_database, a database name that is fixed at construction
\* and never changes; with a leading Identifier(n) it calls
\* delete_database(n); on storage success the result is an empty-body Ok
\* Response.
C7_DeleteDatabaseTarget ==
    /\ []DeleteDatabaseTarget
    /\ [][current_database' = current_database]_vars

C7_Witness ==
    /\ pc = "returned"
    /\ IsDatabaseDelete(ast)
    /\ ast.expr = None
    /\ current_database = "db2"
    /\ calls[1].args.database = "db2"
    /\ answer # NoAnswer
    /\ answer.tag = "Ok"
    /\ EmptyOkResponse

IsKeyed(node) ==
    /\ node.type = "SingleExpression"
    /\ node.keyword \in {"Get", "Delete"}

\* C8: Get and Delete have the same identifier requirement: a
\* SingleExpression without target is rejected with InvalidQuery and no
\* storage call for both keywords; with target Identifier(k), get(k)
\* respectively delete(k) is called with exactly k.
C8_SameIdentifierRequirement ==
    (Started /\ IsKeyed(ast)) =>
        IF ast.ident = None
        THEN RejectedWithoutStorage
        ELSE ast.ident.val.type = "Identifier" =>
                /\ Len(calls) = 1
                /\ calls[1].op = (IF ast.keyword = "Get" THEN "get_from_dustdata"
                                                         ELSE "delete_from_dustdata")
                /\ calls[1].args.key = ast.ident.val.name

\* C9: update user over an argument list without any Identifier (no
\* username) returns an InvalidQuery Error and never calls update_user.
C9_UpdateUserRequiresUsername ==
    (Started /\ IsUserUpdate(ast) /\ LastIdentifier(ast.expr.val) = 0) =>
        RejectedWithoutStorage

\* Some(s) when the field's last assignment carries the string s, else None
FieldGiven(args, field) ==
    IF StringGiven(args, field) THEN Some(StringOf(args, field)) ELSE None

\* update_user was called with the password and permission the list gives
UpdateForwards(args) ==
    /\ pc \in {"in_storage", "returned"}
    /\ Len(calls) = 1
    /\ calls[1].op = "update_user"
    /\ calls[1].args.password = FieldGiven(args, "password")
    /\ calls[1].args.permission =
          (IF StringGiven(args, "permission")
           THEN Some(LevelOf(StringOf(args, "permission")))
           ELSE None)

\* the permission in effect, if any, names a level
PermissionAcceptable(args) ==
    StringGiven(args, "permission") => StringOf(args, "permission") \in LevelNames

\* C10 (as stated): in update user a password / permission assignment whose
\* value is a literal that is not a string counts as absent: no error comes
\* of it, update_user is called with None for that field, and the fields
\* given as strings are forwarded as Some(value).
C10_AsStated ==
    (Started /\ IsUserUpdate(ast) /\ PermissionAcceptable(ast.expr.val)) =>
        UpdateForwards(ast.expr.val)

\* the first password / permission assignment carrying a non-string literal
FirstOtherLiteral(args) ==
    LET S == {i \in DOMAIN args : IsCredential(args[i]) /\ IsOtherLiteral(args[i].value)}
    IN  CHOOSE i \in S : \A j \in S : i <= j

\* C10 (amended): in update user the last assignment of a field decides it.
\* A value that is no literal at all (an identifier, say) counts as absent:
\* no error comes of it and update_user gets None for the field, while a
\* string is forwarded as Some(value).  A literal of another kind than string
\* (a number, a document) does not count as absent: run_ast returns
\* InvalidQuery with "password must be a string" or "permission must be a
\* string", whichever field comes first, and update_user is not called.
C10_NonStringValues ==
    /\ (/\ Started
        /\ IsUserUpdate(ast)
        /\ ~SomeCredentialOtherLiteral(ast.expr.val)
        /\ PermissionAcceptable(ast.expr.val)) => UpdateForwards(ast.expr.val)
    /\ (/\ Started
        /\ IsUserUpdate(ast)
        /\ SomeCredentialOtherLiteral(ast.expr.val)) =>
          /\ RejectedWithoutStorage
          /\ result.message =
                ast.expr.val[FirstOtherLiteral(ast.expr.val)].ident
                    \o " must be a string"

C10_Witness ==
    /\ pc = "returned"
    /\ IsUserUpdate(ast)
    /\ Len(ast.expr.val) = 3
    /\ NameGiven(ast.expr.val) = "bob"
    /\ LastAssignment(ast.expr.val, "password") # 0
    /\ ast.expr.val[LastAssignment(ast.expr.val, "password")].value.type = "Identifier"
    /\ StringOf(ast.expr.val, "permission") = "read_and_write"
    /\ calls[1].args.password = None
    /\ calls[1].args.permission = Some("ReadAndWrite")
    /\ answer # NoAnswer
    /\ answer.tag = "Ok"

IsIntoWrite(node) ==
    /\ node.type = "IntoExpression"
    /\ node.keyword \in {"Insert", "Update"}

\* a structured document literal, as opposed to a scalar literal or another node
IsDocumentLiteral(node) == node.type = "Bson" /\ node.bson.kind = "Document"

\* C11: IntoExpression with Insert or Update: a non-Identifier target is
\* rejected with "key must be an identifier" whatever the value is; with an
\* Identifier target, a value that is not a document literal (a non-literal
\* node, or a scalar literal such as a string or a number) is rejected with
\* InvalidQuery "value must be a json object" and insert / update is not
\* called.
C11_ValueMustBeDocument ==
    (Started /\ IsIntoWrite(ast)) =>
        IF ast.ident.type # "Identifier"
        THEN /\ RejectedWithoutStorage
             /\ result.message = "key must be an identifier"
        ELSE ~IsDocumentLiteral(ast.json) =>
                /\ RejectedWithoutStorage
                /\ result.message = "value must be a json object"

\* C12: a run_ast call makes at most one storage interface call: none when it
\* returns without an answer from storage (a query-shape InvalidQuery Error),
\* exactly one when storage answered; after a failed storage call the
\* translated failure is returned and no further call is made.
C12_AtMostOneStorageCall ==
    /\ Len(calls) <= 1
    /\ pc = "in_storage" => (Len(calls) = 1 /\ answer = NoAnswer)
    /\ (pc = "returned" /\ answer = NoAnswer) =>
          (calls = <<>> /\ IsInvalidQuery(result))
    /\ answer # NoAnswer =>
          /\ pc = "returned"
          /\ Len(calls) = 1
          /\ answer.tag = "Ok" => result.type = "Response"
          /\ answer.tag = "Err" =>
                /\ result.type = "Error"
                /\ result.status = TranslationOf(answer.err).status
                /\ result.message = TranslationOf(answer.err).message

C12_Witness ==
    /\ pc = "returned"
    /\ answer # NoAnswer
    /\ answer.tag = "Err"
    /\ answer.err = ExternalError("NotFound", "user does not exist")
    /\ Len(calls) = 1
    /\ calls[1].op = "create_user"
    /\ result.type = "Error"

====
